---------------------------- MODULE Spec2Model ----------------------------
(***************************************************************************)
(* Model of the sentinel3-sral-demo repository:                            *)
(*   - EumdacConnector (src/src/connectors/eumdac_connector.py): the       *)
(*     session holding one API token and a lazily rebuilt DataStore        *)
(*     handle, and the per-product download / unzip / remove pipeline run  *)
(*     concurrently by download_products.                                  *)
(*   - ZarrProcessor (src/src/processors/zarr_processor.py): the ingest of *)
(*     NetCDF files into one partitioned collection, opened or created.    *)
(*   - SingletonMeta (src/utils/singleton.py): the registry of the one     *)
(*     instance of each class, called sequentially or from threads.        *)
(* Time is a discrete clock; a token is an entry of `tokens`, a DataStore  *)
(* handle an entry of `handles` (the index is the instance's identity).    *)
(* Names and paths are sequences of characters.                            *)
(***************************************************************************)
EXTENDS Naturals, Sequences, FiniteSets

\* ------------------------------------------------------------------ bounds
MaxTime == 3
MaxMargin == 2
MaxLife == 2
MaxTokens == 3
MaxProducts == 2
MaxFiles == 2
MaxRecords == 2
MaxCalls == 2
MaxThreads == 2
MaxSetups == 3
MaxParams == 2
MaxRaises == 2

\* --------------------------------------------------------------- constants
None == 0

VARIABLES
    now,          \* datetime.now(), in clock ticks
    constructed,  \* whether EumdacConnector.__init__ has completed
    margin,       \* self._refresh_token_margin_mn
    lifetime,     \* the validity the remote grants to the tokens it issues
    _consumer_key,     \* self._consumer_key: None or the key of [myprofile]
    _consumer_secret,  \* self._consumer_secret: None or the secret of [myprofile]
    tokens,       \* every eumdac.AccessToken minted so far, in minting order
    _token,       \* self._token: None or an index of tokens
    handles,      \* every eumdac.DataStore built so far: the token it is bound to
    _datastore,   \* self._datastore: None or an index of handles
    last,         \* the main thread's latest call and what it returned
    dp,           \* the download_products call: its stage, argument and result
    tasks,        \* the _process_product task of each submitted product
    zips,         \* the archive files on disk: path -> content
    extracted,    \* the paths of the files written by zip_ref.extract
    completed,    \* the indexes of the finished tasks, in completion order
    disk,         \* the NetCDF files handed to the ZarrProcessor, in list order
    store,        \* the zcollection at zarr_collection_path on disk
    _collection,  \* ZarrProcessor._collection: None or a Collection object
    ncalls,       \* the number of calls made on the ZarrProcessor
    zp,           \* the latest call on the ZarrProcessor and what it did
    _instances,   \* SingletonMeta._instances: class -> None or an index of objs
    objs,         \* every object a SingletonMeta class constructed: class, value
                  \* (value None when __init__ raised before setting it)
    callers,      \* the constructor call each thread is in, and where
    returned,     \* the <<class, instance>> pairs the constructor calls returned
    ctorArgs,     \* the arguments of the first and latest constructor call on each class
    loggerDict,   \* logging.Logger.manager.loggerDict: name -> Logger, PlaceHolder or nothing
    root,         \* the root logger: its level and handlers
    nsetup,       \* the number of setup_root_logging() calls made
    formatter     \* the OpenSearchQueryFormatter under call: its fields, what it returned

ingestor == <<disk, store, _collection, ncalls, zp>>

registry == <<_instances, objs, callers, returned, ctorArgs>>

loggers == <<loggerDict, root, nsetup>>

utils == <<loggers, formatter>>

credentials == <<_consumer_key, _consumer_secret>>

vars == <<now, constructed, margin, lifetime, credentials, tokens, _token, handles, _datastore, last,
          dp, tasks, zips, extracted, completed, ingestor, registry, utils>>

pipeline == <<dp, tasks, zips, extracted, completed>>

session == <<constructed, margin, lifetime, credentials, tokens, _token, handles, _datastore>>

Lifetimes == 1..MaxLife
Margins == 0..MaxMargin

\* ------------------------------------------------------------ AuthSession

\* The [myprofile] section of ~/.eumdac/<credentials_filename>.
myprofile ==
    [consumer_key |-> "mocked_consumer_key", consumer_secret |-> "mocked_consumer_secret"]

\* Line 123 with the secret given first.
AccessToken_Swapped(t) ==
    [expiration |-> t + lifetime, credentials |-> <<_consumer_secret', _consumer_key'>>]

\* eumdac.AccessToken((self._consumer_key, self._consumer_secret)) at time t:
\* what the remote token exchange returns, and the pair it was asked with,
\* which is the fields as they are once the step that mints has set them.
AccessToken(t) ==
    [expiration |-> t + lifetime, credentials |-> <<_consumer_key', _consumer_secret'>>]

expiration(tok) == tokens[tok].expiration

\* Line 122 with <= for <.
NeedsRefresh_Le(tok, t) == tok = None \/ expiration(tok) <= t + margin

\* Line 122 with the margin forgotten.
NeedsRefresh_NoMargin(tok, t) == tok = None \/ expiration(tok) < t

\* The condition of refresh_token, refresh_date being t + margin.
NeedsRefresh(tok, t) == tok = None \/ expiration(tok) < t + margin

\* refresh_token(): is_refreshed is the value returned.
refresh_token(is_refreshed) ==
    /\ is_refreshed = NeedsRefresh(_token, now)
    /\ IF is_refreshed
       THEN /\ Len(tokens) < MaxTokens
            /\ tokens' = Append(tokens, AccessToken(now))
            /\ _token' = Len(tokens) + 1
       ELSE UNCHANGED <<tokens, _token>>

\* Line 138 without the is_token_refreshed disjunct.
RebuildHandle_OnlyIfNone(ds, is_token_refreshed) == ds = None

\* The condition under which the datastore property builds a new DataStore.
RebuildHandle(ds, is_token_refreshed) == ds = None \/ is_token_refreshed

\* eumdac.DataStore(token): the handle is bound to the token it was built with.
DataStore(tok) == tok

\* The datastore property.
datastore(is_token_refreshed) ==
    /\ refresh_token(is_token_refreshed)
    /\ IF RebuildHandle(_datastore, is_token_refreshed)
       THEN /\ handles' = Append(handles, DataStore(_token'))
            /\ _datastore' = Len(handles) + 1
       ELSE UNCHANGED <<handles, _datastore>>

NoCall ==
    [op |-> "none", at |-> 0, ret |-> FALSE, preToken |-> None, token |-> None,
     preMinted |-> 0, minted |-> 0, preDs |-> None, ds |-> None,
     preBuilt |-> 0, prevDs |-> None, refreshedSince |-> FALSE,
     raised |-> "none", attempts |-> 0, file |-> "none"]

\* The record of a call made by the main thread at the current instant.
Observed(op, ret) ==
    [op |-> op, at |-> now, ret |-> ret,
     preToken |-> _token, token |-> _token',
     preMinted |-> Len(tokens), minted |-> Len(tokens'),
     preDs |-> _datastore, ds |-> IF op = "datastore" THEN _datastore' ELSE None,
     preBuilt |-> Len(handles),
     prevDs |-> IF last.op = "datastore" THEN last.ds ELSE last.prevDs,
     refreshedSince |-> IF last.op = "datastore" THEN ret
                        ELSE last.refreshedSince \/ ret,
     raised |-> "none", attempts |-> IF ret THEN 1 ELSE 0,
     file |-> IF op = "__init__" THEN "complete" ELSE "none"]

\* EumdacConnector(credentials_filename, refresh_token_margin_mn): __init__
\* sets the fields and calls refresh_token().
Construct ==
    /\ ~constructed
    /\ _consumer_key' = myprofile.consumer_key
    /\ _consumer_secret' = myprofile.consumer_secret
    /\ \E m \in Margins, r \in BOOLEAN :
          /\ margin' = m
          /\ refresh_token(r)
          /\ last' = Observed("__init__", r)
    /\ constructed' = TRUE
    /\ UNCHANGED <<utils, ingestor, registry, now, lifetime, handles, _datastore, pipeline>>

\* The main thread calls connector.refresh_token().
CallRefreshToken ==
    /\ UNCHANGED credentials
    /\ constructed
    /\ dp.pc = "idle"
    /\ \E r \in BOOLEAN :
          /\ refresh_token(r)
          /\ last' = Observed("refresh_token", r)
    /\ UNCHANGED <<utils, ingestor, registry, now, constructed, margin, lifetime, handles, _datastore, pipeline>>

\* The main thread reads connector.datastore.
CallDatastore ==
    /\ UNCHANGED credentials
    /\ constructed
    /\ dp.pc = "idle"
    /\ \E r \in BOOLEAN :
          /\ datastore(r)
          /\ last' = Observed("datastore", r)
    /\ UNCHANGED <<utils, ingestor, registry, now, constructed, margin, lifetime, pipeline>>

\* The clock advances.
Tick ==
    /\ now < MaxTime
    /\ now' = now + 1
    /\ UNCHANGED <<utils, ingestor, registry, session, last, pipeline>>

\* -------------------------------------------- AuthSession, failing remote

\* What ~/.eumdac/<credentials_filename> may be: a file with both options of
\* [myprofile], no file (config.read skips it), or a file lacking an option.
CredentialFiles == {"complete", "missing", "no_consumer_key", "no_consumer_secret"}

\* load_credentials with every file taken as complete.
load_credentials_Unchecked(file) == "none"

\* load_credentials: the error config.get raises, if any.
load_credentials(file) ==
    IF file = "missing" THEN "NoSectionError"
    ELSE IF file \in {"no_consumer_key", "no_consumer_secret"} THEN "NoOptionError"
    ELSE "none"

\* What the token exchange gives: a token, or an error of the remote, which
\* surfaces either in eumdac.AccessToken(...) (line 123) or in the first read
\* of the new object's expiration (line 126), the exchange being made then.
ExchangeOutcomes == {"ok", "raise_in_AccessToken", "raise_in_expiration"}

\* An AccessToken object whose exchange has not succeeded: it holds no token.
Unfetched == [expiration |-> 0, credentials |-> <<_consumer_key', _consumer_secret'>>]

\* The exchange refresh_token() attempts, if it attempts one.
Attempted(exchange) == IF NeedsRefresh(_token, now) THEN exchange ELSE "none"

\* refresh_token() with a remote that gives `exchange`: the effect on the
\* session, whether the call returns or raises.
refresh_token_on(exchange) ==
    LET attempted == Attempted(exchange)
    IN IF attempted = "ok"
       THEN /\ Len(tokens) < MaxTokens
            /\ tokens' = Append(tokens, AccessToken(now))
            /\ _token' = Len(tokens) + 1
       ELSE IF attempted = "raise_in_expiration"
       THEN /\ Len(tokens) < MaxTokens
            /\ tokens' = Append(tokens, Unfetched)
            /\ _token' = Len(tokens) + 1
       ELSE UNCHANGED <<tokens, _token>>

\* The record of a call of the main thread that `exchange` was given to.
ObservedOn(op, exchange) ==
    LET attempted == Attempted(exchange)
    IN [Observed(op, attempted = "ok") EXCEPT
           !.raised = IF attempted \in {"none", "ok"} THEN "none" ELSE "AuthError",
           !.attempts = IF attempted = "none" THEN 0 ELSE 1,
           !.ds = IF op = "datastore" /\ attempted \in {"none", "ok"}
                  THEN _datastore' ELSE None]

\* The record of a constructor call that raised.
InitRaised(file, raised, attempts) ==
    [NoCall EXCEPT !.op = "__init__", !.at = now, !.raised = raised,
                   !.attempts = attempts, !.file = file]

\* EumdacConnector(...) with the credential file and the remote it finds:
\* __init__ sets the fields, calls load_credentials(), then refresh_token().
\* An instance whose __init__ raised is never handed to the caller.
__init__(file, exchange) ==
    /\ ~constructed
    /\ LET raised == load_credentials(file)
       IN IF raised # "none"
          THEN /\ last' = InitRaised(file, raised, 0)
               /\ UNCHANGED session
          ELSE IF exchange # "ok"
          THEN /\ last' = InitRaised(file, "AuthError", 1)
               /\ UNCHANGED session
          ELSE /\ \E m \in Margins : margin' = m
               /\ _consumer_key' = myprofile.consumer_key
               /\ _consumer_secret' = myprofile.consumer_secret
               /\ refresh_token_on(exchange)
               /\ last' = [ObservedOn("__init__", exchange) EXCEPT !.file = file]
               /\ constructed' = TRUE
               /\ UNCHANGED <<lifetime, handles, _datastore>>
    /\ UNCHANGED <<utils, ingestor, registry, now, pipeline>>

\* The main thread calls connector.refresh_token(), the remote giving
\* `exchange`; an error ends the run.
CallRefreshTokenOn(exchange) ==
    /\ UNCHANGED credentials
    /\ constructed
    /\ dp.pc = "idle"
    /\ last.raised = "none"
    /\ refresh_token_on(exchange)
    /\ last' = ObservedOn("refresh_token", exchange)
    /\ UNCHANGED <<utils, ingestor, registry, now, constructed, margin, lifetime, handles, _datastore,
                   pipeline>>

\* The main thread reads connector.datastore, the remote giving `exchange`:
\* an error of refresh_token() leaves the property before line 138.
CallDatastoreOn(exchange) ==
    /\ UNCHANGED credentials
    /\ constructed
    /\ dp.pc = "idle"
    /\ last.raised = "none"
    /\ refresh_token_on(exchange)
    /\ IF /\ Attempted(exchange) \in {"none", "ok"}
          /\ RebuildHandle(_datastore, Attempted(exchange) = "ok")
       THEN /\ handles' = Append(handles, DataStore(_token'))
            /\ _datastore' = Len(handles) + 1
       ELSE UNCHANGED <<handles, _datastore>>
    /\ last' = ObservedOn("datastore", exchange)
    /\ UNCHANGED <<utils, ingestor, registry, now, constructed, margin, lifetime, pipeline>>

\* ---------------------------------------------------- AcquisitionPipeline

\* The download_dir argument and the product ids a caller may pass.
download_dir == <<"d">>
ProductIds == {<<"a">>, <<"b">>}

\* The measurement file the callers and the tests ask for.
MEASUREMENTS_FILENAME == <<"m">>

\* os.path.join(a, b)
join(a, b) == a \o <<"/">> \o b

\* str.startswith
startswith(s, prefix) ==
    Len(prefix) <= Len(s) /\ SubSeq(s, 1, Len(prefix)) = prefix

\* fsrc.name: the file name the remote gives to the archive of a product.
ArchiveName(product_id) == product_id \o <<".zip">>

\* What selected_product.open() and the copy may give for a product: a failure
\* of the remote ("error"), an unreadable archive ("corrupt"), or a readable
\* one: "full" holds the product's measurement file, another file of the
\* product and a measurement file outside the product's folder; "other" holds
\* no measurement file; "empty" holds nothing.
RemoteOutcomes == {"error", "corrupt", "full", "other", "empty"}

Served(outcome, product_id) ==
    [ok |-> outcome # "error",
     corrupt |-> outcome = "corrupt",
     names |-> IF outcome = "full"
               THEN {join(product_id, MEASUREMENTS_FILENAME),
                     join(product_id, <<"x">>), MEASUREMENTS_FILENAME}
               ELSE IF outcome = "other" THEN {join(product_id, <<"x">>)}
               ELSE {}]

\* The product_ids lists download_products is called with.
ProductLists ==
    UNION {[1..n -> ProductIds] : n \in 0..MaxProducts}

NotCalled == [pc |-> "idle", product_ids |-> <<>>, result |-> <<>>]

\* A task as dask.delayed(self._process_product)(...) submits it.
NewTask(product) ==
    [pc |-> "refresh_check", product_id |-> product, is_refreshed |-> FALSE,
     obtained |-> "none", zip_path |-> <<>>, namelist |-> {}, written |-> {},
     failedAt |-> "none", calls |-> <<>>, unzip_dir |-> <<>>, result |-> <<>>,
     observed |-> None]

Running == dp.pc \in {"computing", "raised"}

TaskAt(i, pc) == Running /\ i \in DOMAIN tasks /\ tasks[i].pc = pc

Failed(task, stage) == [task EXCEPT !.pc = "failed", !.failedAt = stage]

\* The calls _process_product has made so far, with the one of `op` on `arg`.
Called(task, op, arg) == Append(task.calls, [op |-> op, arg |-> arg])

\* Line 317 returning the archive path.
process_result_ZipPath(task) == task.zip_path

\* return unzip_dir: what _process_product returns.
process_result(task) == task.unzip_dir

\* The tasks of download_products with a task submitted for an empty batch.
delayed_tasks_NeverNone(products_batch) ==
    IF products_batch = <<>> THEN <<NewTask(<<"a">>)>>
    ELSE [i \in 1..Len(products_batch) |-> NewTask(products_batch[i])]

\* delayed_tasks = [dask.delayed(self._process_product)(...) for product in
\* products_batch]
delayed_tasks(products_batch) ==
    [i \in 1..Len(products_batch) |-> NewTask(products_batch[i])]

\* download_products, up to the submission of the tasks to the worker pool.
download_products(product_ids) ==
    /\ constructed
    /\ dp.pc = "idle"
    /\ dp' = [pc |-> "computing", product_ids |-> product_ids, result |-> <<>>]
    /\ tasks' = delayed_tasks(product_ids)
    /\ last' = [NoCall EXCEPT !.op = "download_products", !.at = now]
    /\ UNCHANGED <<utils, ingestor, registry, now, session, zips, extracted, completed>>

\* self.datastore in a worker thread: refresh_token evaluates its condition
\* (line 122) on the token it reads, which the task remembers until it has
\* exchanged it.
RefreshCheck(i) ==
    /\ TaskAt(i, "refresh_check")
    /\ tasks' = [tasks EXCEPT ![i].pc =
                    IF NeedsRefresh(_token, now) THEN "refresh_mint" ELSE "ds_check",
                              ![i].observed =
                    IF NeedsRefresh(_token, now) THEN _token ELSE None]
    /\ UNCHANGED <<utils, ingestor, registry, now, session, last, dp, zips, extracted, completed>>

\* ... refresh_token exchanges the credentials for a token and stores it.
RefreshMint(i) ==
    /\ UNCHANGED credentials
    /\ TaskAt(i, "refresh_mint")
    /\ Len(tokens) < MaxTokens
    /\ tokens' = Append(tokens, AccessToken(now))
    /\ _token' = Len(tokens) + 1
    /\ tasks' = [tasks EXCEPT ![i].pc = "ds_check", ![i].is_refreshed = TRUE,
                              ![i].observed = None]
    /\ UNCHANGED <<utils, ingestor, registry, now, constructed, margin, lifetime, handles, _datastore, last, dp,
                   zips, extracted, completed>>

\* ... the property evaluates `self._datastore is None or is_token_refreshed`.
DatastoreCheck(i) ==
    /\ TaskAt(i, "ds_check")
    /\ tasks' = [tasks EXCEPT ![i].pc =
                    IF RebuildHandle(_datastore, tasks[i].is_refreshed)
                    THEN "ds_build" ELSE "ds_return",
                              ![i].is_refreshed = FALSE]
    /\ UNCHANGED <<utils, ingestor, registry, now, session, last, dp, zips, extracted, completed>>

\* ... self._datastore = eumdac.DataStore(self._token)
DatastoreBuild(i) ==
    /\ UNCHANGED credentials
    /\ TaskAt(i, "ds_build")
    /\ handles' = Append(handles, DataStore(_token))
    /\ _datastore' = Len(handles) + 1
    /\ tasks' = [tasks EXCEPT ![i].pc = "ds_return"]
    /\ UNCHANGED <<utils, ingestor, registry, now, constructed, margin, lifetime, tokens, _token, last, dp,
                   zips, extracted, completed>>

\* Whether handle h, handed out now while the session holds token `held`, is
\* bound to another token, which is expired or within the margin of expiry.
Stale(h, bound, held) == bound[h] # held /\ expiration(bound[h]) < now + margin

Obtained(h, bound, held) == IF Stale(h, bound, held) THEN "stale" ELSE "current"

\* ... return self._datastore
DatastoreReturn(i) ==
    /\ TaskAt(i, "ds_return")
    /\ tasks' = [tasks EXCEPT ![i].pc = "download",
                              ![i].obtained = Obtained(_datastore, handles, _token)]
    /\ UNCHANGED <<utils, ingestor, registry, now, session, last, dp, zips, extracted, completed>>

\* The file system after open(zip_path, 'wb') and the copy of the stream.
WriteZip(path, content) ==
    [q \in (DOMAIN zips) \cup {path} |-> IF q = path THEN content ELSE zips[q]]

\* _download_product after the datastore access: get_product, open, copy,
\* `outcome` being what the remote gives.
_download_product(i, outcome) ==
    /\ TaskAt(i, "download")
    /\ LET served == Served(outcome, tasks[i].product_id)
           zip_path == join(download_dir, ArchiveName(tasks[i].product_id))
       IN IF served.ok
          THEN /\ zips' = WriteZip(zip_path, [corrupt |-> served.corrupt,
                                              names |-> served.names])
               /\ tasks' = [tasks EXCEPT ![i].pc = "unzip", ![i].zip_path = zip_path,
                                         ![i].calls = Called(tasks[i], "_download_product",
                                                             tasks[i].product_id)]
          ELSE /\ tasks' = [tasks EXCEPT ![i] = Failed([tasks[i] EXCEPT !.calls =
                                 Called(tasks[i], "_download_product", tasks[i].product_id)],
                                 "download")]
               /\ UNCHANGED zips
    /\ UNCHANGED <<utils, ingestor, registry, now, session, last, dp, extracted, completed>>

\* The condition under which _unzip_product extracts an entry of the archive.
Extracts(file, product_id) == startswith(file, product_id)

\* _unzip_product: zipfile.ZipFile raises on a missing or unreadable archive.
_unzip_product(i) ==
    /\ TaskAt(i, "unzip")
    /\ LET t == tasks[i]
           readable == t.zip_path \in DOMAIN zips /\ ~zips[t.zip_path].corrupt
           files == IF readable
                    THEN {f \in zips[t.zip_path].names : Extracts(f, t.product_id)}
                    ELSE {}
       IN IF readable
          THEN /\ extracted' = extracted \cup {join(download_dir, f) : f \in files}
               /\ tasks' = [tasks EXCEPT ![i].pc = "remove",
                                         ![i].namelist = zips[t.zip_path].names,
                                         ![i].written = files,
                                         ![i].calls = Called(t, "_unzip_product", t.zip_path),
                                         ![i].unzip_dir = join(download_dir, t.product_id)]
          ELSE /\ tasks' = [tasks EXCEPT ![i] = Failed([t EXCEPT !.calls =
                                 Called(t, "_unzip_product", t.zip_path)], "unzip")]
               /\ UNCHANGED extracted
    /\ UNCHANGED <<utils, ingestor, registry, now, session, last, dp, zips, completed>>

\* _remove_zip, and the return of _process_product: os.remove raises when the
\* file is not there.
_remove_zip(i) ==
    /\ TaskAt(i, "remove")
    /\ LET zip_path == tasks[i].zip_path
       IN IF zip_path \in DOMAIN zips
          THEN /\ zips' = [q \in (DOMAIN zips) \ {zip_path} |-> zips[q]]
               /\ tasks' = [tasks EXCEPT ![i].pc = "done", ![i].namelist = {},
                                         ![i].written = {},
                                         ![i].calls = Called(tasks[i], "_remove_zip", zip_path),
                                         ![i].result = process_result(tasks[i])]
               /\ completed' = Append(completed, i)
          ELSE /\ tasks' = [tasks EXCEPT ![i] = Failed([tasks[i] EXCEPT !.calls =
                                 Called(tasks[i], "_remove_zip", zip_path)], "remove")]
               /\ UNCHANGED <<zips, completed>>
    /\ UNCHANGED <<utils, ingestor, registry, now, session, last, dp, extracted>>

\* dask.compute with the failures of the tasks swallowed.
ComputeOutcome_Swallow ==
    IF \A i \in DOMAIN tasks : tasks[i].pc \in {"done", "failed"}
    THEN "return" ELSE "wait"

\* dask.compute returning as soon as one task has returned.
ComputeOutcome_FirstDone ==
    IF \E i \in DOMAIN tasks : tasks[i].pc = "failed" THEN "raise"
    ELSE IF tasks = <<>> \/ \E i \in DOMAIN tasks : tasks[i].pc = "done" THEN "return"
    ELSE "wait"

\* dask.compute(*delayed_tasks): raises the exception of a failed task,
\* returns once every task has returned.
ComputeOutcome ==
    IF \E i \in DOMAIN tasks : tasks[i].pc = "failed" THEN "raise"
    ELSE IF \A i \in DOMAIN tasks : tasks[i].pc = "done" THEN "return"
    ELSE "wait"

\* The list comprehension of download_products over the completion order.
downloaded_folders_InCompletionOrder(products_batch) ==
    [k \in 1..Len(completed) |-> join(download_dir, tasks[completed[k]].product_id)]

\* downloaded_folders = [os.path.join(download_dir, product_id) for ...]
downloaded_folders(products_batch) ==
    [k \in 1..Len(products_batch) |-> join(download_dir, products_batch[k])]

\* dask.compute returns: download_products returns downloaded_folders.
DownloadReturn ==
    /\ dp.pc = "computing"
    /\ ComputeOutcome = "return"
    /\ dp' = [dp EXCEPT !.pc = "returned", !.result = downloaded_folders(dp.product_ids)]
    /\ UNCHANGED <<utils, ingestor, registry, now, session, last, tasks, zips, extracted, completed>>

\* dask.compute raises: the exception leaves download_products.
DownloadRaise ==
    /\ dp.pc = "computing"
    /\ ComputeOutcome = "raise"
    /\ dp' = [dp EXCEPT !.pc = "raised"]
    /\ UNCHANGED <<utils, ingestor, registry, now, session, last, tasks, zips, extracted, completed>>

\* dask.compute has raised: the futures of the call are released, and the
\* scheduler forgets the task of product i, which no worker had started.
TaskDropped(i) ==
    /\ dp.pc = "raised"
    /\ i \in DOMAIN tasks
    /\ tasks[i].pc = "refresh_check"
    /\ tasks' = [tasks EXCEPT ![i].pc = "dropped"]
    /\ UNCHANGED <<utils, ingestor, registry, now, session, last, dp, zips, extracted, completed>>

\* self.datastore in the task of product i, no other thread running meanwhile.
TaskDatastoreAlone(i) ==
    /\ UNCHANGED credentials
    /\ TaskAt(i, "refresh_check")
    /\ \E r \in BOOLEAN : datastore(r)
    /\ tasks' = [tasks EXCEPT ![i].pc = "download",
                              ![i].obtained = Obtained(_datastore', handles', _token')]
    /\ UNCHANGED <<utils, ingestor, registry, now, constructed, margin, lifetime, last, dp, zips, extracted,
                   completed>>

\* One step of self.datastore in the task of product i.
TaskDatastore(i) ==
    \/ RefreshCheck(i)
    \/ RefreshMint(i)
    \/ DatastoreCheck(i)
    \/ DatastoreBuild(i)
    \/ DatastoreReturn(i)

\* One step of the _process_product task of product i once it holds the
\* handle, the remote giving one of `remote`.
_process_product(i, remote) ==
    \/ \E outcome \in remote : _download_product(i, outcome)
    \/ _unzip_product(i)
    \/ _remove_zip(i)

\* ---------------------------------------------------------- ZarrProcessor

\* The arguments the ZarrProcessor is constructed with.
zarr_collection_path == "/path/to/zarr"
partition_handler == "Date"
index_dimension == "time"

\* The values of the index dimension a record of a NetCDF file may carry.
AxisValues == 1..2

\* A NetCDF file at a path handed to netcdf_2_zarr: missing, or holding
\* records, of which only the value on the index dimension is kept.
AxisSeqs == UNION {[1..n -> AxisValues] : n \in 0..MaxRecords}
NoFile == [found |-> FALSE, axis |-> <<>>]
Files == {NoFile} \cup {[found |-> TRUE, axis |-> a] : a \in AxisSeqs}
FileLists == UNION {[1..n -> Files] : n \in 0..MaxFiles}

\* The collection at zarr_collection_path: none, or what
\* zcollection.create_collection wrote there.
Absent ==
    [exists |-> FALSE, axis |-> "", partition_handler |-> "",
     partition_base_dir |-> ""]

create_collection(axis, handler, base_dir) ==
    [exists |-> TRUE, axis |-> axis, partition_handler |-> handler,
     partition_base_dir |-> base_dir]

\* A collection an earlier run of the task created at the same path.
Existing ==
    [exists |-> TRUE, axis |-> index_dimension, partition_handler |-> partition_handler,
     partition_base_dir |-> zarr_collection_path]

NoIngest ==
    [op |-> "none", netcdf_file_paths |-> <<>>, raised |-> "none", events |-> <<>>,
     inserted |-> <<>>, preExists |-> FALSE, preCollection |-> None,
     keyword |-> FALSE, variables |-> {}, data_vars |-> {},
     inserted_as |-> "none", into |-> None]

\* xr.concat(xr_ds_list, dim=index_dimension)
RECURSIVE concat(_)
concat(xr_ds_list) ==
    IF xr_ds_list = <<>> THEN <<>>
    ELSE Head(xr_ds_list) \o concat(Tail(xr_ds_list))

\* The place of value v in an ascending sequence, after the values equal to it.
RECURSIVE InsertSorted(_, _)
InsertSorted(v, sorted) ==
    IF sorted = <<>> THEN <<v>>
    ELSE IF v < Head(sorted) THEN <<v>> \o sorted
    ELSE <<Head(sorted)>> \o InsertSorted(v, Tail(sorted))

\* combined_data.sortby(index_dimension) left out.
sortby_Unsorted(combined_data) == combined_data

\* combined_data.sortby(index_dimension): ascending on the index dimension.
RECURSIVE sortby(_)
sortby(combined_data) ==
    IF combined_data = <<>> THEN <<>>
    ELSE InsertSorted(combined_data[Len(combined_data)],
                      sortby(SubSeq(combined_data, 1, Len(combined_data) - 1)))

\* What zcollection.open_collection(path, mode="w") may give when a collection
\* is at the path: the collection, a ValueError (for instance a configuration
\* that does not decode), or an error of another class.
\* Line 159 handing the xarray dataset on as it is.
from_xarray_Skipped(ds) == [type |-> "xarray.Dataset", data |-> ds]

\* zcollection.Dataset.from_xarray(ds): the same records in the store's own
\* dataset class.
from_xarray(ds) == [type |-> "zcollection.Dataset", data |-> ds]

OpenOutcomes == {"opened", "ValueError", "OSError"}

\* zcollection.open_collection: raises ValueError when no collection is found.
open_collection(outcome) == IF store.exists THEN outcome ELSE "not_found"

\* `except ValueError:` catches every ValueError of open_collection.
Caught(opened) == opened \in {"not_found", "ValueError"}

\* A new Collection object: the objects are numbered by the call that made them.
Collection == ncalls + 1

\* _open_or_create_collection: the calls it makes, the error that leaves it
\* if any, the collection on disk and the object it returns, open_collection
\* giving `open_outcome` on a collection that is there and create_collection
\* succeeding or not.
_open_or_create_collection(open_outcome, create_ok) ==
    LET opened == open_collection(open_outcome)
    IN IF opened = "opened"
       THEN [events |-> <<"open_collection">>, raised |-> "none",
             store |-> store, collection |-> Collection]
       ELSE IF ~Caught(opened)
       THEN [events |-> <<"open_collection">>, raised |-> "open_collection",
             store |-> store, collection |-> None]
       ELSE IF create_ok
       THEN [events |-> <<"open_collection", "create_collection">>, raised |-> "none",
             store |-> create_collection(index_dimension, partition_handler,
                                         zarr_collection_path),
             collection |-> Collection]
       ELSE [events |-> <<"open_collection", "create_collection">>,
             raised |-> "create_collection", store |-> store, collection |-> None]

\* The earlier stages of the task leave the NetCDF files to ingest, at a path
\* where an earlier run may have left a collection.
Stage ==
    /\ zp.op = "none"
    /\ disk' \in FileLists
    /\ store' \in {Absent, Existing}
    /\ zp' = [zp EXCEPT !.op = "staged"]
    /\ UNCHANGED <<utils, now, session, last, pipeline, registry, _collection, ncalls>>

\* `if netcdf_file_paths == []: raise ValueError` left out.
\* The data variables every measurement file carries, and the named subset a
\* caller asks for.
DataVars == {"var1", "var2", "var3"}
Selections == {{"var1"}}

Rejected_Never(netcdf_file_paths) == FALSE

\* `if netcdf_file_paths == []: raise ValueError`
Rejected(netcdf_file_paths) == netcdf_file_paths = <<>>

\* The places in netcdf_file_paths of the files xr.open_dataset fails on.
Unreadable(netcdf_file_paths) ==
    {k \in 1..Len(netcdf_file_paths) : ~disk[netcdf_file_paths[k]].found}

\* The paths xr.open_dataset is called on: all of them, or those up to the
\* first one it fails on.
OpenedFiles(netcdf_file_paths) ==
    LET missing == Unreadable(netcdf_file_paths)
    IN IF missing = {} THEN netcdf_file_paths
       ELSE SubSeq(netcdf_file_paths, 1,
                   CHOOSE k \in missing : \A m \in missing : k <= m)

\* The errors raised in netcdf_2_zarr itself.
EmptyInput == "ValueError: netcdf_file_paths cannot be empty"
NothingToConcat == "ValueError: must supply at least one object to concatenate"

\* netcdf_2_zarr(netcdf_file_paths): the pool is started, the list checked,
\* the files opened, concatenated and sorted, the collection opened or
\* created, the dataset inserted and the pool closed.
netcdf_2_zarr(netcdf_file_paths, open_outcome, create_ok) ==
    /\ zp.op # "none"
    /\ ncalls < MaxCalls
    /\ LET pool == <<"LocalCluster", "Client">>
           opened == OpenedFiles(netcdf_file_paths)
           opens == [k \in 1..Len(opened) |-> "open_dataset"]
           xr_ds_list == [k \in 1..Len(opened) |-> disk[opened[k]].axis]
           zds == from_xarray(sortby(concat(xr_ds_list)))
           oc == _open_or_create_collection(open_outcome, create_ok)
           call == [NoIngest EXCEPT !.op = "netcdf_2_zarr",
                                    !.netcdf_file_paths = netcdf_file_paths,
                                    !.preExists = store.exists,
                                    !.preCollection = _collection]
       IN IF Rejected(netcdf_file_paths)
          THEN /\ zp' = [call EXCEPT !.raised = EmptyInput, !.events = pool]
               /\ UNCHANGED <<store, _collection>>
          ELSE IF Unreadable(netcdf_file_paths) # {} \/ xr_ds_list = <<>>
          THEN /\ zp' = [call EXCEPT !.raised = IF xr_ds_list = <<>>
                                                THEN NothingToConcat
                                                ELSE "open_dataset",
                                     !.events = pool \o opens]
               /\ UNCHANGED <<store, _collection>>
          ELSE IF oc.raised # "none"
          THEN /\ zp' = [call EXCEPT !.raised = oc.raised,
                                     !.events = pool \o opens \o oc.events]
               /\ store' = oc.store
               /\ UNCHANGED _collection
          ELSE /\ zp' = [call EXCEPT !.events = pool \o opens \o oc.events
                                                \o <<"insert", "close">>,
                                  !.data_vars = DataVars,
                                     !.inserted = zds.data,
                                     !.inserted_as = zds.type,
                                     !.into = oc.collection]
               /\ store' = oc.store
               /\ _collection' = oc.collection
    /\ ncalls' = ncalls + 1
    /\ UNCHANGED <<utils, now, session, last, pipeline, registry, disk>>

\* The collection property with a setter that stores what it is given.
collection_fset_Writable(value) == value

\* processor.collection = value: the property is declared with a getter only,
\* so the assignment raises AttributeError and the field keeps its value.
collection_fset(value) == _collection

\* The collection property: return self._collection
collection == _collection

\* A caller assigns to processor.collection.
SetCollection(value) ==
    /\ zp.op # "none"
    /\ ncalls < MaxCalls
    /\ _collection' = collection_fset(value)
    /\ zp' = [NoIngest EXCEPT !.op = "collection.fset", !.raised = "AttributeError",
                              !.preExists = store.exists, !.preCollection = _collection]
    /\ ncalls' = ncalls + 1
    /\ UNCHANGED <<utils, now, session, last, pipeline, registry, disk, store>>

\* processor.netcdf_2_zarr(netcdf_file_paths, variables=[...]): the method has
\* the parameters (self, netcdf_file_paths) only, so the call raises TypeError
\* when the arguments are bound, before the first statement of the body.
netcdf_2_zarr_variables(netcdf_file_paths, variables) ==
    /\ zp.op # "none"
    /\ ncalls < MaxCalls
    /\ zp' = [NoIngest EXCEPT !.op = "netcdf_2_zarr", !.netcdf_file_paths = netcdf_file_paths,
                              !.preExists = store.exists, !.preCollection = _collection,
                              !.keyword = TRUE, !.variables = variables,
                              !.raised = "TypeError"]
    /\ ncalls' = ncalls + 1
    /\ UNCHANGED <<utils, now, session, last, pipeline, registry, disk, store, _collection>>

\* ---------------------------------------------------------- SingletonMeta

\* The classes made with metaclass=SingletonMeta and the argument values
\* their constructors are called with.
Classes == {"EumdacConnector", "SingletonClass", "AnotherSingleton"}
Arguments == {10, 20}

Threads == 1..MaxThreads

Idle == [pc |-> "idle", cls |-> "none", value |-> None, instance |-> None]

\* Line 34 taken as always true.
NotRegistered_Always(cls) == TRUE

\* `cls not in cls._instances`
NotRegistered(cls) == _instances[cls] = None

\* super().__call__(*args, **kwargs): a new object, __init__ run with the
\* arguments of the call.
NewInstance(cls, value) == [cls |-> cls, value |-> value]

CtorArgs(cls, value) ==
    [ctorArgs EXCEPT ![cls] = [first |-> IF @.first = None THEN value ELSE @.first,
                               latest |-> value]]

\* cls(value), SingletonMeta.__call__ running with no other thread in it.
SingletonCall(cls, value) ==
    /\ \A t \in Threads : callers[t].pc = "idle"
    /\ IF NotRegistered(cls)
       THEN /\ objs' = Append(objs, NewInstance(cls, value))
            /\ _instances' = [_instances EXCEPT ![cls] = Len(objs) + 1]
       ELSE UNCHANGED <<objs, _instances>>
    /\ returned' = returned \cup {<<cls, _instances'[cls]>>}
    /\ ctorArgs' = CtorArgs(cls, value)
    /\ UNCHANGED <<utils, now, session, last, pipeline, ingestor, callers>>

\* The object super().__call__ made whose __init__ raised: allocated, its
\* attributes not set.
PartialInstance(cls) == [cls |-> cls, value |-> None]

\* The objects whose __init__ raised.
Partial == {k \in DOMAIN objs : objs[k].value = None}

\* Line 36 run on the object whose __init__ raised.
RaisedCall_Registered(cls) == [_instances EXCEPT ![cls] = Len(objs) + 1]

\* super().__call__ raised at line 35: the exception leaves __call__, line 36
\* is not run.
RaisedCall(cls) == _instances

\* cls(value) with __init__ raising, no other thread in __call__: line 34 found
\* the class unregistered, line 35 raised, nothing is returned.
SingletonCallRaises(cls, value) ==
    /\ \A t \in Threads : callers[t].pc = "idle"
    /\ NotRegistered(cls)
    /\ Cardinality(Partial) < MaxRaises
    /\ objs' = Append(objs, PartialInstance(cls))
    /\ _instances' = RaisedCall(cls)
    /\ ctorArgs' = CtorArgs(cls, value)
    /\ UNCHANGED <<utils, now, session, last, pipeline, ingestor, callers, returned>>

\* Thread t calls cls(value).
CallEnter(t, cls, value) ==
    /\ callers[t].pc = "idle"
    /\ callers' = [callers EXCEPT ![t] = [Idle EXCEPT !.pc = "check", !.cls = cls,
                                                      !.value = value]]
    /\ ctorArgs' = CtorArgs(cls, value)
    /\ UNCHANGED <<utils, now, session, last, pipeline, ingestor, _instances, objs, returned>>

\* ... `if cls not in cls._instances:`
CallCheck(t) ==
    /\ callers[t].pc = "check"
    /\ callers' = [callers EXCEPT ![t].pc =
                      IF NotRegistered(callers[t].cls) THEN "construct" ELSE "return"]
    /\ UNCHANGED <<utils, now, session, last, pipeline, ingestor, _instances, objs, returned,
                   ctorArgs>>

\* ... `instance = super().__call__(*args, **kwargs)`
CallConstruct(t) ==
    /\ callers[t].pc = "construct"
    /\ objs' = Append(objs, NewInstance(callers[t].cls, callers[t].value))
    /\ callers' = [callers EXCEPT ![t].pc = "register", ![t].instance = Len(objs) + 1]
    /\ UNCHANGED <<utils, now, session, last, pipeline, ingestor, _instances, returned,
                   ctorArgs>>

\* ... `cls._instances[cls] = instance`
CallRegister(t) ==
    /\ callers[t].pc = "register"
    /\ _instances' = [_instances EXCEPT ![callers[t].cls] = callers[t].instance]
    /\ callers' = [callers EXCEPT ![t].pc = "return"]
    /\ UNCHANGED <<utils, now, session, last, pipeline, ingestor, objs, returned, ctorArgs>>

\* ------------------------------------------------------------ logging_utils

MY_MODULES_PREFIX_LIST == << <<"s", "r", "c">>, <<"u", "t", "i", "l", "s">> >>

\* The logger names the modules and their tests ask for.
LoggerNames ==
    { <<"s", "r", "c">>, <<"s", "r", "c", ".", "a">>, <<"u", "t", "i", "l", "s">>,
      <<"e", "x", "t">> }

\* What LOG_LEVEL gives as default level (INFO when unset), and the log_level
\* arguments of setup_module_logger.
DefaultLevels == {"INFO", "DEBUG"}
LevelArguments == {"None", "ERROR"}

NoLogger == [kind |-> "none", level |-> "NOTSET", handlers |-> <<>>, propagate |-> TRUE]
PlaceHolder == [NoLogger EXCEPT !.kind = "PlaceHolder"]
Logger == [NoLogger EXCEPT !.kind = "Logger"]

\* The names before each "." of a dotted name: the parents getLogger fixes up.
Parents(name) == {SubSeq(name, 1, k - 1) : k \in {j \in 1..Len(name) : name[j] = "."}}

\* logging.getLogger(name): the logger of that name, made if there is none or
\* a PlaceHolder; a parent that has no entry gets a PlaceHolder.
getLogger(dict, name) ==
    [n \in LoggerNames |->
        IF n = name
        THEN IF dict[n].kind = "Logger" THEN dict[n] ELSE Logger
        ELSE IF n \in Parents(name) /\ dict[n].kind = "none"
        THEN PlaceHolder
        ELSE dict[n]]

\* _list_my_loggers(): the Logger entries whose name starts with a prefix of
\* the list.
_list_my_loggers(dict) ==
    {name \in LoggerNames :
        /\ dict[name].kind = "Logger"
        /\ \E k \in DOMAIN MY_MODULES_PREFIX_LIST :
              startswith(name, MY_MODULES_PREFIX_LIST[k])}

RemoveAt(s, i) == SubSeq(s, 1, i - 1) \o SubSeq(s, i + 1, Len(s))

\* for h in my_logger.handlers: my_logger.removeHandler(h) -- the loop walks
\* the list by position while removeHandler deletes from that same list, so
\* the element that slides into the freed position is passed over.
RECURSIVE RemoveHandlers(_, _)
RemoveHandlers(handlers, i) ==
    IF i > Len(handlers) THEN handlers
    ELSE RemoveHandlers(RemoveAt(handlers, i), i + 1)

\* The handlers a setup_root_logging() call creates.
TimedRotatingFileHandler(call) == [kind |-> "file", call |-> call]
StreamHandler(call) == [kind |-> "console", call |-> call]

\* setup_root_logging(), LOG_LEVEL giving default_log_level.
setup_root_logging(default_log_level) ==
    /\ nsetup < MaxSetups
    /\ LET handler == TimedRotatingFileHandler(nsetup + 1)
           console_handler == StreamHandler(nsetup + 1)
           my_loggers == _list_my_loggers(loggerDict)
       IN /\ root' = [level |-> default_log_level, handlers |-> <<handler, console_handler>>]
          /\ loggerDict' =
                [name \in LoggerNames |->
                    IF name \in my_loggers
                    THEN [loggerDict[name] EXCEPT
                             !.handlers = RemoveHandlers(@, 1) \o <<handler, console_handler>>,
                             !.propagate = FALSE]
                    ELSE loggerDict[name]]
    /\ nsetup' = nsetup + 1
    /\ UNCHANGED <<now, session, last, pipeline, ingestor, registry, formatter>>

\* setup_module_logger(module_name, log_level), LOG_LEVEL giving
\* default_log_level.
setup_module_logger(module_name, log_level, default_log_level) ==
    /\ LET module_log_level == IF log_level # "None" THEN log_level ELSE default_log_level
       IN loggerDict' = [getLogger(loggerDict, module_name) EXCEPT
                            ![module_name].level = module_log_level]
    /\ UNCHANGED <<now, session, last, pipeline, ingestor, registry, root, nsetup, formatter>>

\* ------------------------------------------------ OpenSearchQueryFormatter

\* Parameter names and values as the tests give them: text, numbers, booleans.
Keys == { <<"q">>, <<"s", "i", "z", "e">>, <<"o", "n">> }
Str(s) == [type |-> "str", s |-> s, n |-> 0, b |-> FALSE]
Int(n) == [type |-> "int", s |-> <<>>, n |-> n, b |-> FALSE]
Bool(b) == [type |-> "bool", s |-> <<>>, n |-> 0, b |-> b]
Values ==
    { Str(<<"t", "e", "s", "t">>), Str(<<"a", " ", "&", " ", "b">>), Int(10),
      Bool(TRUE), Bool(FALSE) }

\* A mapping in insertion order: its keys are distinct.
Mappings ==
    UNION {{items \in [1..n -> [key : Keys, value : Values]] :
               \A i, j \in 1..n : items[i].key = items[j].key => i = j}
           : n \in 0..MaxParams}

\* What a caller passes as query_params: a dict, or a list of the same pairs.
QueryParams == [type : {"dict", "list"}, items : Mappings]

Digit(d) == <<"0", "1", "2", "3", "4", "5", "6", "7", "8", "9">>[d + 1]

RECURSIVE Digits(_)
Digits(n) == IF n < 10 THEN <<Digit(n)>> ELSE Digits(n \div 10) \o <<Digit(n % 10)>>

\* urllib.parse.quote on one character, for the two the tests use.
quote(c) ==
    IF c = " " THEN <<"%", "2", "0">> ELSE IF c = "&" THEN <<"%", "2", "6">> ELSE <<c>>

\* f"{v}" with text percent-encoded.
RECURSIVE str_Quoted(_)
str_Quoted(v) ==
    IF v.type = "str"
    THEN IF v.s = <<>> THEN <<>>
         ELSE quote(Head(v.s)) \o str_Quoted(Str(Tail(v.s)))
    ELSE IF v.type = "int" THEN Digits(v.n)
    ELSE IF v.b THEN <<"T", "r", "u", "e">> ELSE <<"F", "a", "l", "s", "e">>

\* f"{v}": str(v) of a text, a number or a boolean.
str(v) ==
    IF v.type = "str" THEN v.s
    ELSE IF v.type = "int" THEN Digits(v.n)
    ELSE IF v.b THEN <<"T", "r", "u", "e">> ELSE <<"F", "a", "l", "s", "e">>

\* sep.join(parts)
RECURSIVE str_join(_, _)
str_join(sep, parts) ==
    IF parts = <<>> THEN <<>>
    ELSE IF Len(parts) = 1 THEN parts[1]
    ELSE parts[1] \o sep \o str_join(sep, Tail(parts))

\* "&".join([f"{k}={v}" for k, v in self._query_params.items()])
formatted(items) ==
    str_join(<<"&">>, [i \in DOMAIN items |-> items[i].key \o <<"=">> \o str(items[i].value)])

\* The value of a field that holds None where it otherwise holds text.
NoText == <<"None">>

NoFormatter ==
    [pc |-> "none", query_params |-> [type |-> "dict", items |-> <<>>],
     _formatted_query |-> NoText, raised |-> "none", result |-> NoText]

\* OpenSearchQueryFormatter(query_params)
OpenSearchQueryFormatter(query_params) ==
    /\ formatter.pc = "none"
    /\ formatter' =
          IF query_params.type # "dict"
          THEN [NoFormatter EXCEPT !.pc = "raised", !.query_params = query_params,
                                   !.raised = "ValueError: query_params must be a dict"]
          ELSE [NoFormatter EXCEPT !.pc = "constructed", !.query_params = query_params]
    /\ UNCHANGED <<now, session, last, pipeline, ingestor, registry, loggers>>

\* formatter.format()
format ==
    /\ formatter.pc \in {"constructed", "formatted"}
    /\ LET _formatted_query == formatted(formatter.query_params.items)
       IN formatter' = [formatter EXCEPT !.pc = "formatted",
                                         !._formatted_query = _formatted_query,
                                         !.result = _formatted_query]
    /\ UNCHANGED <<now, session, last, pipeline, ingestor, registry, loggers>>

\* ... `return cls._instances[cls]`
CallReturn(t) ==
    /\ callers[t].pc = "return"
    /\ returned' = returned \cup {<<callers[t].cls, _instances[callers[t].cls]>>}
    /\ callers' = [callers EXCEPT ![t] = Idle]
    /\ UNCHANGED <<utils, now, session, last, pipeline, ingestor, _instances, objs, ctorArgs>>

Init ==
    /\ now = 0
    /\ constructed = FALSE
    /\ margin = 0
    /\ lifetime \in Lifetimes
    /\ _consumer_key = None
    /\ _consumer_secret = None
    /\ tokens = <<>>
    /\ _token = None
    /\ handles = <<>>
    /\ _datastore = None
    /\ last = NoCall
    /\ dp = NotCalled
    /\ tasks = <<>>
    /\ zips = <<>>
    /\ extracted = {}
    /\ completed = <<>>
    /\ disk = <<>>
    /\ store = Absent
    /\ _collection = None
    /\ ncalls = 0
    /\ zp = NoIngest
    /\ _instances = [cls \in Classes |-> None]
    /\ objs = <<>>
    /\ callers = [t \in Threads |-> Idle]
    /\ returned = {}
    /\ ctorArgs = [cls \in Classes |-> [first |-> None, latest |-> None]]
    /\ loggerDict = [name \in LoggerNames |-> NoLogger]
    /\ root = [level |-> "WARNING", handlers |-> <<>>]
    /\ nsetup = 0
    /\ formatter = NoFormatter

Next ==
    \/ Construct
    \/ CallRefreshToken
    \/ CallDatastore
    \/ Tick

Spec == Init /\ [][Next]_vars

\* The fetch stage of the task script (construct the connector, read its
\* datastore, download the products) at one instant of the clock, whatever
\* the remote serves, the datastore accesses of the tasks not overlapping.
NextFetch ==
    \/ Construct
    \/ CallDatastore
    \/ \E product_ids \in ProductLists : download_products(product_ids)
    \/ \E i \in 1..MaxProducts : TaskDatastoreAlone(i)
    \/ \E i \in 1..MaxProducts : _process_product(i, RemoteOutcomes)
    \/ DownloadReturn
    \/ DownloadRaise
    \/ \E i \in 1..MaxProducts : TaskDropped(i)

SpecFetch == Init /\ [][NextFetch]_vars

\* The fetch stage while the clock advances and tokens expire, the datastore
\* accesses of the tasks interleaving statement by statement, the remote
\* serving full archives.
NextRace ==
    \/ Construct
    \/ CallDatastore
    \/ Tick
    \/ \E product_ids \in ProductLists : download_products(product_ids)
    \/ \E i \in 1..MaxProducts : TaskDatastore(i)
    \/ \E i \in 1..MaxProducts : _process_product(i, {"full"})
    \/ DownloadReturn
    \/ DownloadRaise

SpecRace == Init /\ [][NextRace]_vars

\* The session used from one thread, with any credential file and a remote
\* whose token exchange may fail.
NextAuth ==
    \/ \E file \in CredentialFiles, exchange \in ExchangeOutcomes : __init__(file, exchange)
    \/ \E exchange \in ExchangeOutcomes : CallRefreshTokenOn(exchange)
    \/ \E exchange \in ExchangeOutcomes : CallDatastoreOn(exchange)
    \/ Tick

SpecAuth == Init /\ [][NextAuth]_vars

\* The ingest stage of the task script: the files are there, the processor is
\* called, with every list of files and whatever the collection engine gives;
\* a caller that names a subset of variables passes the files it has.
NextIngest ==
    \/ Stage
    \/ SetCollection(Collection)
    \/ \E variables \in Selections :
          /\ disk # <<>>
          /\ netcdf_2_zarr_variables([k \in 1..Len(disk) |-> k], variables)
    \/ \E empty \in BOOLEAN, open_outcome \in OpenOutcomes, create_ok \in BOOLEAN :
          netcdf_2_zarr(IF empty THEN <<>> ELSE [k \in 1..Len(disk) |-> k],
                        open_outcome, create_ok)

\* The initial state of the stages that never call the remote: one lifetime
\* of its tokens is enough.
InitLocal == Init /\ lifetime = MaxLife

SpecIngest == InitLocal /\ [][NextIngest]_vars

\* Constructor calls on the singleton classes made one after the other.
NextSingleton ==
    \E cls \in Classes, value \in Arguments : SingletonCall(cls, value)

SpecSingleton == InitLocal /\ [][NextSingleton]_vars

\* Constructor calls made one after the other, __init__ raising in some.
NextSingletonInit ==
    \/ \E cls \in Classes, value \in Arguments : SingletonCall(cls, value)
    \/ \E cls \in Classes, value \in Arguments : SingletonCallRaises(cls, value)

SpecSingletonInit == InitLocal /\ [][NextSingletonInit]_vars

\* EumdacConnector(value) called from several threads, the statements of
\* SingletonMeta.__call__ interleaving.
NextSingletonRace ==
    \/ \E t \in Threads, value \in Arguments : CallEnter(t, "EumdacConnector", value)
    \/ \E t \in Threads : CallCheck(t)
    \/ \E t \in Threads : CallConstruct(t)
    \/ \E t \in Threads : CallRegister(t)
    \/ \E t \in Threads : CallReturn(t)

SpecSingletonRace == InitLocal /\ [][NextSingletonRace]_vars

\* The logging set-up of a process: modules create their loggers when they
\* are imported, the task script configures the root logger, in any order.
NextLogging ==
    \/ \E default_log_level \in DefaultLevels : setup_root_logging(default_log_level)
    \/ \E module_name \in LoggerNames, log_level \in LevelArguments,
          default_log_level \in DefaultLevels :
          setup_module_logger(module_name, log_level, default_log_level)

SpecLogging == InitLocal /\ [][NextLogging]_vars

\* A caller builds a query string.
NextQuery ==
    \/ \E query_params \in QueryParams : OpenSearchQueryFormatter(query_params)
    \/ format

SpecQuery == InitLocal /\ [][NextQuery]_vars

\* ------------------------------------------------------------------ claims

\* The latest main-thread call was refresh_token(), from __init__ or directly.
RefreshReturned == last.op \in {"__init__", "refresh_token"}

\* The latest main-thread call was a read of the datastore property.
DatastoreReturned == last.op = "datastore"

\* C1: refresh_token() returns True iff no token was held or the held token's
\* expiration e was < now + margin; when it returns False no token exchange
\* took place and the held token is the same instance as before the call.
C1_RefreshIffNearExpiry ==
    RefreshReturned =>
        /\ last.ret = (last.preToken = None
                         \/ expiration(last.preToken) < last.at + margin)
        /\ last.ret => last.token # last.preToken /\ last.minted = last.preMinted + 1
        /\ ~last.ret => last.token = last.preToken /\ last.minted = last.preMinted

\* C1 witness: a direct refresh_token() on a held token at the boundary
\* e = now + margin returned False.
C1_Witness ==
    /\ last.op = "refresh_token"
    /\ ~last.ret
    /\ last.preToken # None
    /\ expiration(last.preToken) = last.at + margin
    /\ margin > 0

\* C2: the handle returned by the datastore property is bound to the token the
\* session holds when the access returns.
C2_HandleBoundToHeldToken ==
    DatastoreReturned => handles[last.ds] = last.token

\* C3: the handle returned by a datastore access is bound to a token that is
\* valid for at least the margin at the moment of return. The claim is taken
\* in its most lenient reading: only remotes granting a lifetime of at least
\* the margin are considered, and a token minted by this very access is
\* accepted.
C3_HandleTokenValidForMargin ==
    (DatastoreReturned /\ lifetime >= margin) =>
        \/ expiration(handles[last.ds]) >= last.at + margin
        \/ (last.ret /\ handles[last.ds] = last.token)

\* C4: a datastore access constructs a new handle exactly when it minted a new
\* token or no handle existed. Hence two accesses with no refresh between them
\* return the same instance, and an access made while the held token is
\* expired (or within the margin) returns an instance distinct from every
\* handle built before.
C4_HandleIdentity ==
    DatastoreReturned =>
        /\ (last.ret \/ last.preDs = None) <=> last.ds > last.preBuilt
        /\ ~(last.ret \/ last.preDs = None)
              => last.ds = last.preDs /\ Len(handles) >= last.preBuilt
        /\ (last.prevDs # None /\ ~last.refreshedSince) => last.ds = last.prevDs
        /\ (last.prevDs # None /\ expiration(last.preToken) < last.at + margin)
              => last.ds # last.prevDs

\* C4 witness: the token expired after a first access, and the next access
\* returned a different handle instance.
C4_Witness ==
    /\ DatastoreReturned
    /\ lifetime >= margin
    /\ last.prevDs # None
    /\ expiration(last.preToken) < last.at + margin
    /\ last.ds # last.prevDs
    /\ last.minted = last.preMinted + 1

\* C5 as stated: when refresh_token() or a datastore access returns, either
\* now + margin < token.expiration strictly, or that very call minted a token.
C5_StrictOrMinted ==
    (RefreshReturned \/ DatastoreReturned) =>
        \/ last.at + margin < expiration(last.token)
        \/ last.ret

\* C5 amended: when refresh_token() or a datastore access returns, either
\* now + margin <= token.expiration, or that very call minted a token; at the
\* boundary token.expiration = now + margin the call mints nothing.
C5_NonStrictOrMinted ==
    (RefreshReturned \/ DatastoreReturned) =>
        /\ (last.at + margin <= expiration(last.token)) \/ last.ret
        /\ (last.preToken # None /\ expiration(last.preToken) = last.at + margin)
              => ~last.ret

\* C5 witness: a call returned at the boundary without minting.
C5_Witness ==
    /\ DatastoreReturned
    /\ ~last.ret
    /\ expiration(last.token) = last.at + margin

\* Whether string s contains string sub.
contains(s, sub) ==
    \E k \in 0..(Len(s) - Len(sub)) : SubSeq(s, k + 1, k + Len(sub)) = sub

\* A task that has left _process_product after attempting the extraction.
ExitedAfterExtraction(i) ==
    \/ tasks[i].pc = "done"
    \/ tasks[i].pc = "failed" /\ tasks[i].failedAt \in {"unzip", "remove"}

\* C6: no fetch obtains from datastore a handle bound to a token that is
\* expired or within the margin of expiry. The claim is taken in its most
\* lenient reading: a handle bound to the token the session holds at that
\* moment is accepted whatever that token's expiration.
C6_NoFetchGetsStaleHandle ==
    \A i \in DOMAIN tasks : tasks[i].obtained # "stale"

\* C7: when download_products returns, its result holds one path per product
\* id, the i-th being download_dir/product_ids[i], whatever the order in which
\* the tasks completed.
C7_PathsInInputOrder ==
    dp.pc = "returned" =>
        /\ Len(dp.result) = Len(dp.product_ids)
        /\ \A k \in 1..Len(dp.product_ids) :
              dp.result[k] = download_dir \o <<"/">> \o dp.product_ids[k]

\* C7 witness: download_products returned after the second product's task
\* completed before the first one's.
C7_Witness ==
    /\ dp.pc = "returned"
    /\ Len(dp.product_ids) = 2
    /\ dp.product_ids[1] # dp.product_ids[2]
    /\ completed = <<2, 1>>

\* C8: _unzip_product writes exactly the entries of the archive whose name
\* starts with the product id and contains the measurement file name.
C8_ExtractsOnlyMeasurement ==
    \A i \in DOMAIN tasks :
        tasks[i].pc = "remove" =>
            tasks[i].written =
                {f \in tasks[i].namelist :
                    /\ startswith(f, tasks[i].product_id)
                    /\ contains(f, MEASUREMENTS_FILENAME)}

\* C9: no archive file survives an attempted extraction: once a task has left
\* _process_product after attempting to extract its archive, whether the
\* extraction succeeded or raised, the archive is not on disk.
C9_ArchiveDeletedOnEveryExit ==
    \A i \in DOMAIN tasks :
        ExitedAfterExtraction(i) => tasks[i].zip_path \notin DOMAIN zips

\* C10: download_products never returns a path list while a task has failed:
\* it returns only when every task has completed, and leaves with the
\* exception only when a task has failed.
C10_FailureReachesCaller ==
    /\ dp.pc = "returned" => \A i \in DOMAIN tasks : tasks[i].pc = "done"
    /\ (\E i \in DOMAIN tasks : tasks[i].pc = "failed") => dp.pc # "returned"
    /\ dp.pc = "raised" => \E i \in DOMAIN tasks : tasks[i].pc = "failed"

\* C10 witness: one product's extraction failed, another product's task
\* completed, and download_products left with the exception.
C10_Witness ==
    /\ dp.pc = "raised"
    /\ \E i, j \in DOMAIN tasks :
          /\ tasks[i].pc = "failed" /\ tasks[i].failedAt = "unzip"
          /\ tasks[j].pc = "done"

\* C11: once one product's pipeline has failed, no other submitted pipeline is
\* abandoned: each of the others is still on its way through download,
\* extraction and archive deletion, or has ended.
C11_OthersStillComplete ==
    \A i, j \in DOMAIN tasks :
        (i # j /\ tasks[j].pc = "failed") => tasks[i].pc # "dropped"

\* The I/O events of a call: file, collection and insert operations.
StoreIO == {"open_dataset", "open_collection", "create_collection", "insert"}

Events(call) == {call.events[k] : k \in DOMAIN call.events}

\* C12: netcdf_2_zarr([]) raises the empty-input ValueError, and in that call
\* no file is opened, no collection is opened or created, nothing is inserted,
\* and the collection on disk and the cached reference are left as they were.
C12_EmptyInputRaisesBeforeIO ==
    (zp.op = "netcdf_2_zarr" /\ zp.netcdf_file_paths = <<>>) =>
        /\ zp.raised = EmptyInput
        /\ Events(zp) \cap StoreIO = {}
        /\ zp.inserted = <<>>
        /\ _collection = zp.preCollection

\* C12 witness: an empty list was given while files were there and a
\* collection was on disk.
C12_Witness ==
    /\ zp.op = "netcdf_2_zarr"
    /\ zp.netcdf_file_paths = <<>>
    /\ zp.raised = EmptyInput
    /\ disk # <<>>
    /\ store.exists

\* C13: a call that reaches the collection on a fresh path creates it with
\* the configured axis, partition scheme and base path; a call that finds a
\* collection at the path opens it and does not create one: create_collection
\* is never invoked while a collection exists at the path.
C13_CreatedOnlyOnFreshPath ==
    LET creates == "create_collection" \in Events(zp)
    IN /\ creates => ~zp.preExists
       /\ (creates /\ zp.raised = "none") =>
             store = [exists |-> TRUE, axis |-> index_dimension,
                      partition_handler |-> partition_handler,
                      partition_base_dir |-> zarr_collection_path]
       /\ ("open_collection" \in Events(zp) /\ ~zp.preExists) => creates
       /\ (zp.preExists /\ zp.raised = "none" /\ zp.op = "netcdf_2_zarr") =>
             "open_collection" \in Events(zp)

\* A call of netcdf_2_zarr that inserted a dataset.
Inserted == zp.op = "netcdf_2_zarr" /\ "insert" \in Events(zp)

\* The records of the files of the latest call carrying value v on the index
\* dimension, each named by its file's place in the list and its place in
\* the file.
RecordsWith(v) ==
    {fk \in (DOMAIN zp.netcdf_file_paths) \X (1..MaxRecords) :
        /\ fk[2] \in DOMAIN disk[zp.netcdf_file_paths[fk[1]]].axis
        /\ disk[zp.netcdf_file_paths[fk[1]]].axis[fk[2]] = v}

\* C14: the dataset passed to collection.insert holds the records of all the
\* input files (the same multiset of values on the index dimension) in
\* non-decreasing order of that dimension, whatever the order of the files
\* and of the records in them.
C14_InsertedSortedConcatenation ==
    Inserted =>
        /\ \A k \in 1..(Len(zp.inserted) - 1) : zp.inserted[k] <= zp.inserted[k + 1]
        /\ \A v \in AxisValues :
              Cardinality({k \in DOMAIN zp.inserted : zp.inserted[k] = v})
                 = Cardinality(RecordsWith(v))

\* C14 witness: two files, the first descending and starting above the
\* second one's values, were inserted as one ascending dataset.
C14_Witness ==
    /\ Inserted
    /\ Len(zp.netcdf_file_paths) = 2
    /\ disk[1].axis = <<2, 1>>
    /\ disk[2].axis = <<1, 2>>
    /\ zp.inserted = <<1, 1, 2, 2>>

\* C15: when the credential file is missing or lacks consumer_key or
\* consumer_secret, the constructor call raises the error of the credential
\* load, having attempted no token exchange, and no session is constructed.
C15_NoExchangeWithoutCredentials ==
    (last.op = "__init__" /\ last.file \in CredentialFiles \ {"complete"}) =>
        /\ last.raised \in {"NoSectionError", "NoOptionError"}
        /\ last.attempts = 0
        /\ ~constructed
        /\ tokens = <<>>

\* C15 witness: the constructor found a file without consumer_secret.
C15_Witness ==
    /\ last.op = "__init__"
    /\ last.file = "no_consumer_secret"
    /\ last.raised = "NoOptionError"

\* C16: when the token exchange fails in refresh_token() or in a datastore
\* access, the call raises after one attempt, and the session holds the token
\* and the handle it held before the call.
C16_FailedExchangeLeavesSession ==
    (last.op \in {"refresh_token", "datastore"} /\ last.raised = "AuthError") =>
        /\ last.attempts = 1
        /\ _token = last.preToken
        /\ _datastore = last.preDs
        /\ Len(handles) = last.preBuilt

\* A directory is on disk when download_products made it or a file was
\* extracted under it.
DirExists(dir) ==
    \/ dir = download_dir
    \/ \E f \in extracted : startswith(f, dir \o <<"/">>)

\* The archive of task i holds no entry of the product carrying the
\* measurement file name.
NoMatchingEntry(i) ==
    \A f \in tasks[i].namelist :
        ~(startswith(f, tasks[i].product_id) /\ contains(f, MEASUREMENTS_FILENAME))

\* C17: when the archive of a product holds no matching entry, the extraction
\* returns without error a directory that exists on disk and in which, the
\* product being the only one fetched, there is no measurement file.
C17_EmptyExtractionDirExists ==
    \A i \in DOMAIN tasks :
        (tasks[i].pc = "remove" /\ NoMatchingEntry(i)) =>
            LET unzip_dir == join(download_dir, tasks[i].product_id)
            IN /\ DirExists(unzip_dir)
               /\ Len(tasks) = 1 =>
                     \A f \in extracted :
                         startswith(f, unzip_dir) => ~contains(f, MEASUREMENTS_FILENAME)

\* C18: from the moment download_products is called with an empty list, no
\* task is submitted, the session's token and handle and the files on disk
\* stay as they were (no datastore access, no token exchange, no product
\* resolved or downloaded), the call does not raise and what it returns is
\* the empty list.
C18_EmptyListNoCatalogCall ==
    [][(dp'.pc # "idle" /\ dp'.product_ids = <<>>) =>
          /\ tasks' = <<>>
          /\ UNCHANGED <<session, zips, extracted>>
          /\ dp'.pc # "raised"
          /\ dp'.pc = "returned" => dp'.result = <<>>]_vars

\* C18 witness: download_products returned from a call with an empty list.
C18_Witness ==
    /\ constructed
    /\ dp.pc = "returned"
    /\ dp.product_ids = <<>>
    /\ dp.result = <<>>

\* The objects the constructor calls on cls have returned.
ReturnedFor(cls) == {p[2] : p \in {q \in returned : q[1] = cls}}

\* The objects of class cls whose __init__ has run.
Constructed(cls) == {k \in DOMAIN objs : objs[k].cls = cls}

\* C19: whatever the interleaving of the constructor calls of the threads,
\* __init__ of EumdacConnector runs at most once and all the calls return the
\* same instance.
C19_OneSessionPerProcess ==
    /\ Cardinality(Constructed("EumdacConnector")) <= 1
    /\ Cardinality(ReturnedFor("EumdacConnector")) <= 1

\* C20: with the constructor calls made one after the other, all the calls on
\* a class return one and the same instance, the registered one, which is of
\* that class and carries the argument of the first call on the class; the
\* instances returned for two classes are two objects, and each class was
\* constructed once.
C20_SequentialSingleton ==
    \A cls \in Classes :
        /\ Cardinality(ReturnedFor(cls)) <= 1
        /\ Cardinality(Constructed(cls)) <= 1
        /\ \A k \in ReturnedFor(cls) :
              /\ _instances[cls] = k
              /\ objs[k] = [cls |-> cls, value |-> ctorArgs[cls].first]
              /\ \A other \in Classes \ {cls} : k \notin ReturnedFor(other)

\* C20 witness: SingletonClass was called with 10, then with 20, and returned
\* the instance holding 10, while AnotherSingleton returned an instance too.
C20_Witness ==
    /\ ctorArgs["SingletonClass"] = [first |-> 10, latest |-> 20]
    /\ \E k \in ReturnedFor("SingletonClass") : objs[k].value = 10
    /\ ReturnedFor("AnotherSingleton") # {}

\* C21: a call of netcdf_2_zarr that started a worker pool has closed it when
\* it exits, whether it returns or raises.
C21_PoolClosedOnExit ==
    (zp.op = "netcdf_2_zarr" /\ "Client" \in Events(zp)) => "close" \in Events(zp)

\* The latest call found a collection at the path and open_collection did not
\* give it: an open failure other than not-found.
OpenFailedOnExisting ==
    /\ zp.preExists
    /\ "open_collection" \in Events(zp)
    /\ "create_collection" \in Events(zp) \/ zp.raised = "open_collection"

\* C22: after an open failure other than not-found the call raises without
\* attempting a create; after such a failure or a failed create nothing is
\* inserted and the cached collection reference is the one held before.
C22_StoreFailureIsFatal ==
    /\ OpenFailedOnExisting =>
          /\ zp.raised # "none"
          /\ "create_collection" \notin Events(zp)
    /\ (OpenFailedOnExisting \/ zp.raised = "create_collection") =>
          /\ "insert" \notin Events(zp)
          /\ _collection = zp.preCollection

\* C23: a call that names a subset of data variables, on readable files and a
\* store that opens or is created, inserts a dataset with exactly the named
\* variables; a call without a subset inserts all of them.
C23_InsertedOnlySelectedVariables ==
    (/\ zp.op = "netcdf_2_zarr"
     /\ zp.netcdf_file_paths # <<>>
     /\ Unreadable(zp.netcdf_file_paths) = {}
     /\ zp.raised \notin {"open_collection", "create_collection"}) =>
        /\ "insert" \in Events(zp)
        /\ zp.data_vars = IF zp.keyword THEN zp.variables ELSE DataVars

\* C24: once the session is constructed its key and secret are the pair
\* load_credentials read from the profile, whatever has been called since, and
\* every token minted so far was asked for with exactly that pair.
C24_CredentialsImmutable ==
    constructed =>
        /\ _consumer_key = myprofile.consumer_key
        /\ _consumer_secret = myprofile.consumer_secret
        /\ \A t \in 1..Len(tokens) :
              tokens[t].credentials = <<myprofile.consumer_key, myprofile.consumer_secret>>

\* C24 witness: download_products has returned after its product pipelines
\* ran, and a token was minted after the one of the constructor.
C24_Witness ==
    /\ constructed
    /\ dp.pc = "returned"
    /\ dp.product_ids # <<>>
    /\ Len(tokens) >= 2
    /\ _token = Len(tokens)

\* C25: every setup_root_logging() call, the first or a later one, leaves each
\* application module logger that existed when it was made with exactly two
\* handlers, the file handler and the console handler that call created, and
\* with the level it had.
C25_TwoHandlersOfLatestCall ==
    [][nsetup' = nsetup + 1 =>
          \A name \in _list_my_loggers(loggerDict) :
             /\ Len(loggerDict'[name].handlers) = 2
             /\ {loggerDict'[name].handlers[k] : k \in 1..Len(loggerDict'[name].handlers)}
                   = {TimedRotatingFileHandler(nsetup'), StreamHandler(nsetup')}
             /\ loggerDict'[name].level = loggerDict[name].level]_vars

\* The text the tests expect for a value: the value as it stands.
Text(v) ==
    IF v = Int(10) THEN <<"1", "0">>
    ELSE IF v = Bool(TRUE) THEN <<"T", "r", "u", "e">>
    ELSE IF v = Bool(FALSE) THEN <<"F", "a", "l", "s", "e">>
    ELSE v.s

\* The i-th pair of a mapping as key=value, and where it starts in the string.
Pair(items, i) == items[i].key \o <<"=">> \o Text(items[i].value)

RECURSIVE Offset(_, _)
Offset(items, i) == IF i = 1 THEN 0 ELSE Offset(items, i - 1) + Len(Pair(items, i - 1)) + 1

Ops(task) == [k \in DOMAIN task.calls |-> task.calls[k].op]

C28_ReturnedMeansNothingInFlight ==
    [][dp'.pc = "returned" =>
          /\ Len(tasks') = Len(dp'.product_ids)
          /\ \A i \in DOMAIN tasks' :
                /\ tasks'[i].pc = "done"
                /\ Ops(tasks'[i]) = <<"_download_product", "_unzip_product", "_remove_zip">>
          /\ dp.pc = "returned" => UNCHANGED <<tasks, zips, extracted, completed>>]_vars

\* C28 witness: download_products has returned the folders of two products;
\* both pipelines have returned, files were extracted and no archive is left.
C28_Witness ==
    /\ dp.pc = "returned"
    /\ Len(dp.result) = 2
    /\ \A i \in DOMAIN tasks : tasks[i].pc = "done" /\ tasks[i].result = dp.result[i]
    /\ extracted # {}
    /\ DOMAIN zips = {}

\* The places of an event in the record of the latest call.
Places(e) == {k \in DOMAIN zp.events : zp.events[k] = e}

RefreshRightAfterMint ==
    /\ last.op \in {"__init__", "refresh_token", "datastore"}
    /\ last.ret
    /\ last.at = now
    /\ now' = now
    /\ last'.op = "refresh_token"
    /\ last' # last

\* C31 as stated: a refresh_token() made right after a call that minted a
\* token, no time having elapsed, returns False, exchanges nothing and keeps
\* the token, for every margin and every lifetime.
C31_SecondRefreshIsNoOp ==
    [][RefreshRightAfterMint =>
          /\ ~last'.ret
          /\ UNCHANGED <<tokens, _token>>]_vars

\* C31 amended: when the lifetime the remote grants is at least the margin, a
\* refresh_token() made right after a call that minted a token, no time
\* having elapsed, returns False, exchanges nothing and keeps the token; when
\* the lifetime is below the margin that second call mints again.
C31_SecondRefreshIsNoOpIfLifetimeCoversMargin ==
    [][RefreshRightAfterMint =>
          IF lifetime >= margin
          THEN ~last'.ret /\ UNCHANGED <<tokens, _token>>
          ELSE last'.ret /\ _token' # _token /\ Len(tokens') = Len(tokens) + 1]_vars

\* C31 witness: a token other than the constructor's was minted at this
\* instant under a positive margin, and a refresh_token() made at the same
\* instant has returned False.
C31_Witness ==
    /\ last.op = "refresh_token"
    /\ ~last.ret
    /\ last.at = now
    /\ Len(tokens) >= 2
    /\ _token = Len(tokens)
    /\ expiration(_token) = now + lifetime
    /\ margin > 0
    /\ last.token = last.preToken

\* C32: a datastore access that exchanges the token it found expired (or
\* within the margin) does so while the session still holds that token: no
\* other access that found the same token has exchanged it meanwhile, so one
\* expiry gets one exchange.
C32_OneExchangePerExpiry ==
    [][\A i \in DOMAIN tasks :
          (/\ i \in DOMAIN tasks'
           /\ tasks[i].pc = "refresh_mint"
           /\ tasks'[i].pc = "ds_check") => _token = tasks[i].observed]_vars

\* A pipeline that has written its archive and has yet to extract or delete it.
HoldsArchive(i) == tasks[i].pc \in {"unzip", "remove"}

\* C33: no two pipelines in flight hold the same archive path: none writes
\* its download over the archive another has yet to extract or delete, and
\* none deletes an archive another one wrote.
C33_NoSharedArchive ==
    \A i, j \in DOMAIN tasks :
       (i # j /\ HoldsArchive(i) /\ HoldsArchive(j)) => tasks[i].zip_path # tasks[j].zip_path

\* The step is a constructor call whose __init__ raised.
SuperCallRaised == Len(objs') = Len(objs) + 1 /\ objs'[Len(objs')].value = None

\* The constructor calls on cls have raised so far and none has returned.
OnlyRaisedSoFar(cls) ==
    /\ _instances[cls] = None
    /\ \E k \in Partial : objs[k].cls = cls

\* C34: a constructor call whose __init__ raises leaves the registry as it
\* was and returns nothing; no call ever returns an object whose __init__
\* raised; and the first call that returns after such failures ran __init__
\* on a new object with its own arguments, registered it and returned it.
C34_FailedInitRegistersNothing ==
    /\ \A p \in returned : p[2] \in DOMAIN objs /\ p[2] \notin Partial
    /\ \A cls \in Classes : _instances[cls] # None => _instances[cls] \notin Partial
    /\ [][/\ SuperCallRaised => UNCHANGED <<_instances, returned>>
          /\ \A cls \in Classes :
                (OnlyRaisedSoFar(cls) /\ ~SuperCallRaised /\ ReturnedFor(cls)' # {}) =>
                   /\ objs' = Append(objs, [cls |-> cls, value |-> ctorArgs'[cls].latest])
                   /\ _instances'[cls] = Len(objs')
                   /\ ReturnedFor(cls)' = {Len(objs')}]_vars

\* C34 witness: SingletonClass(10) raised, then SingletonClass(20) returned
\* the registered instance, which holds 20.
C34_Witness ==
    /\ \E k \in Partial : objs[k].cls = "SingletonClass"
    /\ ctorArgs["SingletonClass"] = [first |-> 10, latest |-> 20]
    /\ \E k \in ReturnedFor("SingletonClass") :
          _instances["SingletonClass"] = k /\ objs[k].value = 20

=============================================================================
